---- MODULE Spec2Model ----
(***************************************************************************)
(* County-health lookup service: the Flask deployment (src/app.py) and the *)
(* FastAPI deployment (src/api/county_data.py) over the two SQLite tables  *)
(* zip_county and county_health_rankings, and the bulk loader               *)
(* (src/csv_to_sqlite.py) that imports a CSV file into a table.            *)
(*                                                                         *)
(* Text whose characters matter (zip, county codes, years) is a sequence   *)
(* of one-character strings; text that is only compared for equality       *)
(* (measure names, states, county names) is a TLA+ string.                 *)
(***************************************************************************)
EXTENDS Integers, Sequences, FiniteSets, TLC

VARIABLES
    impl,      \* which deployment serves: "flask" (app.py) or "fastapi" (api/county_data.py)
    db,        \* the SQLite file: present or not, and its two tables
    pc,        \* where the request in flight is: idle, recv, connect, query, close, done
    req,       \* the request in flight
    conn,      \* TRUE while the request's sqlite3 connection is open
    opened,    \* TRUE once the request has opened a connection
    queried,   \* TRUE once the request has executed a statement
    resp,      \* the response produced
    tables,    \* the loader's database: for each table name, its table or NoTable
    before,    \* the loader's database as it was when the last run started
    last,      \* the CSV file of the last loader run
    exit,      \* the exit code of the last loader run
    log        \* the statements the last loader run executed successfully

loaderVars == <<tables, before, last, exit, log>>

vars == <<impl, db, pc, req, conn, opened, queried, resp,
          tables, before, last, exit, log>>

(***************************************************************************)
(* Characters                                                              *)
(***************************************************************************)
AsciiDigits == {"0", "1", "2", "3", "4", "5", "6", "7", "8", "9"}

\* Non-ASCII characters of Unicode category Nd (ARABIC-INDIC DIGIT ZERO..),
\* named by their code points.
NonAsciiDigits == {"U+0660", "U+0661", "U+0662", "U+0663", "U+0668"}

\* Python 3 `\d` on a str pattern: any Unicode decimal digit.
IsReDigit(c) == c \in AsciiDigits \cup NonAsciiDigits

DigitChar(d) ==
    CASE d = 0 -> "0" [] d = 1 -> "1" [] d = 2 -> "2" [] d = 3 -> "3"
      [] d = 4 -> "4" [] d = 5 -> "5" [] d = 6 -> "6" [] d = 7 -> "7"
      [] d = 8 -> "8" [] d = 9 -> "9"

DigitVal(c) ==
    CASE c = "0" -> 0 [] c = "1" -> 1 [] c = "2" -> 2 [] c = "3" -> 3
      [] c = "4" -> 4 [] c = "5" -> 5 [] c = "6" -> 6 [] c = "7" -> 7
      [] c = "8" -> 8 [] c = "9" -> 9

RECURSIVE IntToChars(_)
\* str(n) of a non-negative Python int.
IntToChars(n) ==
    IF n < 10 THEN <<DigitChar(n)>>
    ELSE Append(IntToChars(n \div 10), DigitChar(n % 10))

(***************************************************************************)
(* JSON values of a request body field, as Python sees them after          *)
(* json.loads and dict.get: a missing key and JSON null are both None.     *)
(***************************************************************************)
JAbsent == [t |-> "absent"]
JNull == [t |-> "null"]
\* A Python str whose characters matter: a sequence of characters.
JStr(s) == [t |-> "str", s |-> s]
\* A Python str that is only compared for equality: a TLA+ string.
JText(name) == [t |-> "text", name |-> name]
JInt(n) == [t |-> "int", n |-> n]
JList(items) == [t |-> "list", items |-> items]

IsNone(v) == v.t \in {"absent", "null"}

\* Python truth value: `not v`.
Falsy(v) ==
    CASE v.t \in {"absent", "null"} -> TRUE
      [] v.t = "str" -> v.s = <<>>
      [] v.t = "text" -> v.name = ""
      [] v.t = "int" -> v.n = 0
      [] v.t = "list" -> v.items = <<>>

\* str(v) as a character sequence (zip values only).
PyStr(v) ==
    CASE v.t \in {"absent", "null"} -> <<"N", "o", "n", "e">>
      [] v.t = "str" -> v.s
      [] v.t = "int" -> IntToChars(v.n)
      [] v.t = "list" -> <<"[">> \o <<"'">> \o v.items \o <<"'">> \o <<"]">>

(***************************************************************************)
(* Request validation                                                      *)
(***************************************************************************)
ALLOWED_MEASURES ==
    {"Violent crime rate", "Unemployment", "Children in poverty",
     "Diabetic screening", "Mammography screening",
     "Preventable hospital stays", "Uninsured",
     "Sexually transmitted infections", "Physical inactivity",
     "Adult obesity", "Premature Death", "Daily fine particulate matter"}

\* The first five characters are \d and nothing or one final newline follows:
\* what Pattern.match does with ^\d{5}$ ($ also matches before a final "\n").
ReMatchZip(s) ==
    /\ Len(s) >= 5
    /\ \A i \in 1..5 : IsReDigit(s[i])
    /\ \/ Len(s) = 5
       \/ Len(s) = 6 /\ s[6] = "\n"

\* Pattern.fullmatch with ^\d{5}$: the whole text is five \d.
ReFullmatchZip(s) ==
    /\ Len(s) = 5
    /\ \A i \in 1..5 : IsReDigit(s[i])

is_valid_zip(zip_code) == ReMatchZip(PyStr(zip_code))

\* `x in ALLOWED_MEASURES` hashes x: a list or dict raises TypeError.
Unhashable(v) == v.t = "list"

InAllowed(v) == v.t = "text" /\ v.name \in ALLOWED_MEASURES

IsTeapot(body) == body.coffee.t = "text" /\ body.coffee.name = "teapot"

\* Flask's request.is_json and FastAPI's `"application/json" in ctype.lower()`.
IsJsonCtype(ctype) == ctype = "application/json"

(***************************************************************************)
(* Responses                                                               *)
(***************************************************************************)
\* msg: where the body's message text comes from: a literal of the source
\* ("literal"), the text of a caught exception ("exception"), or no message
NoResp == [status |-> 0, kind |-> "none", keys |-> {}, rows |-> <<>>, msg |-> "none"]

\* jsonify({"error": ...}), status
JsonError(status) ==
    [status |-> status, kind |-> "object", keys |-> {"error"}, rows |-> <<>>,
     msg |-> "literal"]

\* FastAPI's handler of HTTPException: {"detail": ...}
JsonDetail(status) ==
    [status |-> status, kind |-> "object", keys |-> {"detail"}, rows |-> <<>>,
     msg |-> "literal"]

\* werkzeug's HTML error page (no errorhandler registered for the status)
HtmlError(status) ==
    [status |-> status, kind |-> "html", keys |-> {}, rows |-> <<>>, msg |-> "literal"]

\* Starlette's plain-text "Internal Server Error" for an unhandled exception
TextError(status) ==
    [status |-> status, kind |-> "text", keys |-> {}, rows |-> <<>>, msg |-> "literal"]

JsonOk ==
    [status |-> 200, kind |-> "object", keys |-> {"ok"}, rows |-> <<>>, msg |-> "none"]

\* a JSON array of row objects; keys are the keys of each row object
JsonRows(rows, keys) ==
    [status |-> 200, kind |-> "array", keys |-> keys, rows |-> rows, msg |-> "none"]

\* app.py county_data with the teapot test moved below the required-field test
FlaskValidateTeapotLate(r) ==
    IF ~IsJsonCtype(r.ctype) THEN JsonError(400)
    ELSE IF r.body.kind = "malformed" THEN HtmlError(400)
    ELSE IF r.body.kind # "object" THEN HtmlError(500)
    ELSE IF Falsy(r.body.zip) \/ Falsy(r.body.measure_name) THEN JsonError(400)
    ELSE IF IsTeapot(r.body) THEN JsonError(418)
    ELSE IF ~is_valid_zip(r.body.zip) THEN JsonError(400)
    ELSE IF Unhashable(r.body.measure_name) THEN HtmlError(500)
    ELSE IF ~InAllowed(r.body.measure_name) THEN JsonError(400)
    ELSE NoResp

\* app.py county_data, up to the call of fetch_data: the response, or NoResp
\* when the request is valid.
FlaskValidate(r) ==
    IF ~IsJsonCtype(r.ctype) THEN JsonError(400)
    ELSE IF r.body.kind = "malformed" THEN HtmlError(400)
    ELSE IF r.body.kind # "object" THEN HtmlError(500)
    ELSE IF IsTeapot(r.body) THEN JsonError(418)
    ELSE IF Falsy(r.body.zip) \/ Falsy(r.body.measure_name) THEN JsonError(400)
    ELSE IF ~is_valid_zip(r.body.zip) THEN JsonError(400)
    ELSE IF Unhashable(r.body.measure_name) THEN HtmlError(500)
    ELSE IF ~InAllowed(r.body.measure_name) THEN JsonError(400)
    ELSE NoResp

\* api/county_data.py county_data answering a missing field with 422
FastapiValidateMissing422(r) ==
    IF ~IsJsonCtype(r.ctype) THEN JsonDetail(400)
    ELSE IF r.body.kind = "malformed" THEN TextError(500)
    ELSE IF r.body.kind # "object" THEN TextError(500)
    ELSE IF IsTeapot(r.body) THEN JsonError(418)
    ELSE IF IsNone(r.body.zip) \/ IsNone(r.body.measure_name) THEN JsonDetail(422)
    ELSE IF r.body.zip.t # "str" \/ ~ReFullmatchZip(r.body.zip.s) THEN JsonDetail(400)
    ELSE IF Unhashable(r.body.measure_name) THEN TextError(500)
    ELSE IF ~InAllowed(r.body.measure_name) THEN JsonDetail(400)
    ELSE NoResp

\* api/county_data.py county_data, up to get_db_path.
FastapiValidate(r) ==
    IF ~IsJsonCtype(r.ctype) THEN JsonDetail(400)
    ELSE IF r.body.kind = "malformed" THEN TextError(500)
    ELSE IF r.body.kind # "object" THEN TextError(500)
    ELSE IF IsTeapot(r.body) THEN JsonError(418)
    ELSE IF IsNone(r.body.zip) \/ IsNone(r.body.measure_name) THEN JsonDetail(400)
    ELSE IF r.body.zip.t # "str" \/ ~ReFullmatchZip(r.body.zip.s) THEN JsonDetail(400)
    ELSE IF Unhashable(r.body.measure_name) THEN TextError(500)
    ELSE IF ~InAllowed(r.body.measure_name) THEN JsonDetail(400)
    ELSE NoResp

\* app.py's routes with GET also accepted on /county_data
FlaskRouteGetAllowed(r) ==
    IF r.path = "/" THEN
        IF r.method = "GET" THEN JsonOk ELSE JsonError(405)
    ELSE IF r.path = "/county_data" THEN NoResp
    ELSE JsonError(404)

\* The routing tables: the response of a request that reaches no POST handler,
\* NoResp for one that does.
FlaskRoute(r) ==
    IF r.path = "/" THEN
        IF r.method = "GET" THEN JsonOk ELSE JsonError(405)
    ELSE IF r.path = "/county_data" THEN
        IF r.method = "POST" THEN NoResp ELSE JsonError(405)
    ELSE JsonError(404)

FastapiRoute(r) ==
    IF r.path = "/" THEN
        IF r.method = "GET" THEN JsonDetail(404)
        ELSE IF r.method = "POST" THEN NoResp
        ELSE JsonDetail(405)
    ELSE JsonDetail(404)

(***************************************************************************)
(* The database.  Every column is TEXT (csv_to_sqlite.py creates them so); *)
(* an empty CSV cell is stored as NULL.                                    *)
(***************************************************************************)
NullText == "<NULL>"          \* SQL NULL in a column kept as a TLA+ string
NullChars == <<"<NULL>">>     \* SQL NULL in a column kept as characters

\* Python truth value of a column value: not None and not ''.
TruthyText(x) == x # NullText /\ x # ""
TruthyChars(x) == x # NullChars /\ x # <<>>

\* SQL `a = b` on TEXT: NULL equals nothing.
SqlEqChars(a, b) == a # NullChars /\ b # NullChars /\ a = b

\* byte order of the characters the columns hold (BINARY collation)
CharCode(c) == IF c = "-" THEN 45 ELSE 48 + DigitVal(c)

RECURSIVE CastInteger(_, _)
\* CAST(text AS INTEGER): the value of the longest prefix of digits, 0 if none
\* (acc is the value read so far).
CastInteger(s, acc) ==
    IF s = <<>> \/ Head(s) \notin AsciiDigits THEN acc
    ELSE CastInteger(Tail(s), acc * 10 + DigitVal(Head(s)))

CastYear(y) == IF y = NullChars THEN -1 ELSE CastInteger(y, 0)

RECURSIVE TextLess(_, _)
\* a < b for two non-NULL TEXT values, byte by byte
TextLess(a, b) ==
    IF b = <<>> THEN FALSE
    ELSE IF a = <<>> THEN TRUE
    ELSE IF Head(a) # Head(b) THEN CharCode(Head(a)) < CharCode(Head(b))
    ELSE TextLess(Tail(a), Tail(b))

\* a sorts strictly before b under ASC (NULL first)
SqlTextLess(a, b) ==
    IF b = NullChars THEN FALSE
    ELSE IF a = NullChars THEN TRUE
    ELSE TextLess(a, b)

\* ORDER BY CAST(Data_Release_Year AS INTEGER) ASC, Year_span ASC
OrderBefore(a, b) ==
    \/ CastYear(a.Data_Release_Year) < CastYear(b.Data_Release_Year)
    \/ /\ CastYear(a.Data_Release_Year) = CastYear(b.Data_Release_Year)
       /\ SqlTextLess(a.Year_span, b.Year_span)

RECURSIVE InsertSorted(_, _)
InsertSorted(row, sorted) ==
    IF sorted = <<>> THEN <<row>>
    ELSE IF OrderBefore(row, Head(sorted)) THEN <<row>> \o sorted
    ELSE <<Head(sorted)>> \o InsertSorted(row, Tail(sorted))

RECURSIVE SortRows(_)
\* the sorter keeps rows that compare equal in the order they were produced
SortRows(rows) ==
    IF rows = <<>> THEN <<>>
    ELSE InsertSorted(rows[Len(rows)], SortRows(SubSeq(rows, 1, Len(rows) - 1)))

RECURSIVE Repeat(_, _)
Repeat(x, n) == IF n = 0 THEN <<>> ELSE <<x>> \o Repeat(x, n - 1)

RECURSIVE FlaskJoin(_, _, _, _)
\* app.py fetch_data's SELECT ... JOIN ... WHERE, before the ORDER BY: each
\* rankings row of the measure, in table order, once per zip_county row of the
\* zip whose county_code equals its fipscode.
FlaskJoin(chr, zip_county, zip_code, measure_name) ==
    IF chr = <<>> THEN <<>>
    ELSE LET c == Head(chr)
             n == Cardinality({z \in zip_county :
                      /\ SqlEqChars(z.zip, zip_code)
                      /\ SqlEqChars(c.fipscode, z.county_code)})
         IN (IF c.Measure_name = measure_name THEN Repeat(c, n) ELSE <<>>)
                \o FlaskJoin(Tail(chr), zip_county, zip_code, measure_name)

\* app.py fetch_data: the rows of the query
FlaskQuery(d, zip_code, measure_name) ==
    SortRows(FlaskJoin(d.chr, d.zip_county, zip_code, measure_name))

\* the zip_county query read with fetchone() instead of fetchall()
ZcRowsFetchOne(d, zip_code) ==
    LET all == {z \in d.zip_county : SqlEqChars(z.zip, zip_code)}
    IN IF all = {} THEN {} ELSE {CHOOSE z \in all : TRUE}

\* api/county_data.py: the resolved-county sets of a zip
ZcRows(d, zip_code) == {z \in d.zip_county : SqlEqChars(z.zip, zip_code)}

States(zc_rows) ==
    {z.state_abbreviation : z \in {r \in zc_rows : TruthyText(r.state_abbreviation)}}

CountyNames(zc_rows) == {z.county : z \in {r \in zc_rows : TruthyText(r.county)}}

Codes(zc_rows) == {z.county_code : z \in {r \in zc_rows : TruthyChars(r.county_code)}}

FipsCodes(zc_rows) == {c \in Codes(zc_rows) : Len(c) >= 5}

Last3(c) == SubSeq(c, Len(c) - 2, Len(c))

CccCodes(zc_rows) == {Last3(c) : c \in {x \in Codes(zc_rows) : Len(x) >= 3}}

\* the three OR-ed clauses; each is present only when its sets are non-empty
FipsClause(zc_rows, c) == c.fipscode \in FipsCodes(zc_rows)

CodeClause(zc_rows, c) ==
    /\ States(zc_rows) # {} /\ CccCodes(zc_rows) # {}
    /\ c.State \in States(zc_rows)
    /\ c.County_code \in CccCodes(zc_rows)

NameClause(zc_rows, c) ==
    /\ States(zc_rows) # {} /\ CountyNames(zc_rows) # {}
    /\ c.State \in States(zc_rows)
    /\ c.County \in CountyNames(zc_rows)

HasClauses(zc_rows) ==
    \/ FipsCodes(zc_rows) # {}
    \/ States(zc_rows) # {} /\ CccCodes(zc_rows) # {}
    \/ States(zc_rows) # {} /\ CountyNames(zc_rows) # {}

\* the rows of the SELECT, in table order (the statement has no ORDER BY and
\* scans county_health_rankings by rowid)
FastapiSelect(d, zc_rows, measure_name) ==
    SelectSeq(d.chr, LAMBDA c :
        /\ c.Measure_name = measure_name
        /\ \/ FipsClause(zc_rows, c)
           \/ CodeClause(zc_rows, c)
           \/ NameClause(zc_rows, c))

(***************************************************************************)
(* The inputs: table contents and requests                                 *)
(***************************************************************************)
MaxChrRows == 2     \* rows of county_health_rankings
MaxZipRows == 2     \* rows of zip_county

Zip02138 == <<"0", "2", "1", "3", "8">>
Zip03060 == <<"0", "3", "0", "6", "0">>
Zip99999 == <<"9", "9", "9", "9", "9">>

ZcRow(zip, st, county, code) ==
    [zip |-> zip, state_abbreviation |-> st, county |-> county, county_code |-> code]

ChrRow(st, county, ccc, span, measure, year, fips) ==
    [State |-> st, County |-> county, County_code |-> ccc, Year_span |-> span,
     Measure_name |-> measure, Data_Release_Year |-> year, fipscode |-> fips]

ZcMiddlesex == ZcRow(Zip02138, "MA", "Middlesex County", <<"2", "5", "0", "1", "7">>)
ZcHillsborough == ZcRow(Zip02138, "NH", "Hillsborough County", <<"3", "3", "0", "1", "1">>)
ZcNashua == ZcRow(Zip03060, "NH", "Hillsborough County", <<"3", "3", "0", "1", "1">>)
ZcPartial == ZcRow(Zip02138, NullText, NullText, <<"1", "7">>)

\* a second row of the same zip and county code, the county spelled differently
ZcMiddlesexAlt == ZcRow(Zip02138, "MA", "Middlesex", <<"2", "5", "0", "1", "7">>)

ZcUniverse == {ZcMiddlesex, ZcMiddlesexAlt, ZcHillsborough, ZcNashua, ZcPartial}

ChrObesity2012 ==
    ChrRow("MA", "Middlesex County", <<"0", "1", "7">>, <<"2", "0", "0", "9">>,
           "Adult obesity", <<"2", "0", "1", "2">>, <<"2", "5", "0", "1", "7">>)
ChrObesity2014 ==
    ChrRow("MA", "Middlesex County", <<"0", "1", "7">>, <<"2", "0", "1", "0">>,
           "Adult obesity", <<"2", "0", "1", "4">>, <<"2", "5", "0", "1", "7">>)
ChrUnemployment ==
    ChrRow("MA", "Middlesex County", <<"0", "1", "7">>, <<"2", "0", "1", "0">>,
           "Unemployment", <<"2", "0", "1", "0">>, <<"2", "5", "0", "1", "7">>)
ChrHillsborough ==
    ChrRow("NH", "Hillsborough County", <<"0", "1", "1">>, <<"2", "0", "0", "8">>,
           "Adult obesity", <<"2", "0", "1", "2">>, <<"3", "3", "0", "1", "1">>)
ChrStrafford ==
    ChrRow("NH", "Strafford County", <<"0", "1", "7">>, <<"2", "0", "0", "9">>,
           "Adult obesity", <<"2", "0", "1", "3">>, <<"3", "3", "0", "1", "7">>)

ChrUniverse ==
    {ChrObesity2012, ChrObesity2014, ChrUnemployment, ChrHillsborough, ChrStrafford}

RECURSIVE SeqsUpTo(_, _)
\* the sequences of at most n elements of S
SeqsUpTo(S, n) ==
    IF n = 0 THEN {<<>>}
    ELSE LET shorter == SeqsUpTo(S, n - 1)
         IN shorter \cup {Append(q, x) : q \in shorter, x \in S}

ChrTables == SeqsUpTo(ChrUniverse, MaxChrRows)

ZipTables == {T \in SUBSET ZcUniverse : Cardinality(T) <= MaxZipRows}

\* the header of the County Health Rankings CSV, which the loader turns into
\* the columns of county_health_rankings
ChrHeader ==
    <<"State", "County", "State_code", "County_code", "Year_span",
      "Measure_name", "Measure_id", "Numerator", "Denominator",
      "Raw_value", "Confidence_Interval_Lower_Bound",
      "Confidence_Interval_Upper_Bound", "Data_Release_Year", "fipscode">>

\* str.lower() of each name of ChrHeader: the schema of the API test database,
\* and the keys app.py gives its result objects
LowerHeader ==
    <<"state", "county", "state_code", "county_code", "year_span",
      "measure_name", "measure_id", "numerator", "denominator",
      "raw_value", "confidence_interval_lower_bound",
      "confidence_interval_upper_bound", "data_release_year", "fipscode">>

\* a header that spells the same fields without underscores
CamelHeader ==
    <<"State", "County", "StateCode", "CountyCode", "YearSpan",
      "MeasureName", "MeasureId", "Numerator", "Denominator", "RawValue",
      "ConfidenceIntervalLowerBound", "ConfidenceIntervalUpperBound",
      "DataReleaseYear", "fipscode">>

\* str.lower() of each name of CamelHeader
SquashedHeader ==
    <<"state", "county", "statecode", "countycode", "yearspan",
      "measurename", "measureid", "numerator", "denominator", "rawvalue",
      "confidenceintervallowerbound", "confidenceintervalupperbound",
      "datareleaseyear", "fipscode">>

\* a table that lost its fipscode column
NoFipsHeader == SubSeq(ChrHeader, 1, Len(ChrHeader) - 1)

\* str.lower() on the column names above
LowerName(c) ==
    IF \E i \in 1..Len(ChrHeader) : c \in {ChrHeader[i], LowerHeader[i]}
    THEN LowerHeader[CHOOSE i \in 1..Len(ChrHeader) : c \in {ChrHeader[i], LowerHeader[i]}]
    ELSE IF \E i \in 1..Len(ChrHeader) : c \in {CamelHeader[i], SquashedHeader[i]}
    THEN SquashedHeader[CHOOSE i \in 1..Len(ChrHeader) :
                            c \in {CamelHeader[i], SquashedHeader[i]}]
    ELSE c

\* str.replace("_", "") on the lower-cased column names
DropUnderscores(c) ==
    IF \E i \in 1..Len(LowerHeader) : c = LowerHeader[i]
    THEN SquashedHeader[CHOOSE i \in 1..Len(LowerHeader) : c = LowerHeader[i]]
    ELSE c

KeyError == "<KeyError>"

\* api/county_data.py find_col: the first column equal to target ignoring case,
\* else the first equal ignoring case and underscores, else KeyError
find_col(columns, target) ==
    LET t == LowerName(target)
        t2 == DropUnderscores(t)
        exact == {i \in 1..Len(columns) : LowerName(columns[i]) = t}
        loose == {i \in 1..Len(columns) : DropUnderscores(LowerName(columns[i])) = t2}
        First(S) == CHOOSE i \in S : \A j \in S : i <= j
    IN IF exact # {} THEN columns[First(exact)]
       ELSE IF loose # {} THEN columns[First(loose)]
       ELSE KeyError

\* the columns api/county_data.py filters on
FilterColumns == {"measure_name", "state", "county", "county_code", "fipscode"}

\* SQLite resolves a column reference of a statement ignoring case only
SqlResolves(columns, name) ==
    \E i \in 1..Len(columns) : LowerName(columns[i]) = LowerName(name)

\* present: data.db exists; fault: what is wrong with the file ("corrupt": it
\* is no database; "no_zip_table": it has no zip_county); chr_cols: the columns
\* of county_health_rankings, <<>> when the table does not exist
Storage(present, fault, chr_cols, zip_county, chr) ==
    [present |-> present, fault |-> fault, chr_cols |-> chr_cols,
     zip_county |-> zip_county, chr |-> chr]

\* a database file loaded from the two CSV files
Database(present, zip_county, chr) == Storage(present, "none", ChrHeader, zip_county, chr)

\* the database of tests/test_county_data_api.py (its second county aside)
TestDb ==
    Database(TRUE, {ZcMiddlesex, ZcHillsborough},
             <<ChrObesity2012, ChrObesity2014, ChrUnemployment>>)

NoDb == Database(FALSE, {}, <<>>)

ZipValues ==
    {JAbsent, JNull, JStr(<<>>), JStr(Zip02138), JStr(Zip99999),
     JStr(<<"2", "1", "3", "8">>),
     JStr(Zip02138 \o <<"\n">>),
     JStr(<<"+", "2", "1", "3", "8">>),
     JStr(<<" ", "0", "2", "1", "3", "8">>),
     JStr(<<"U+0660", "U+0662", "U+0661", "U+0663", "U+0668">>),
     JInt(0), JInt(99999), JList(Zip02138)}

MeasureValues ==
    {JText(m) : m \in ALLOWED_MEASURES}
        \cup {JAbsent, JNull, JText(""), JText("Adult Obesity"),
              JText("Not A Measure"), JInt(11), JList(<<"Adult obesity">>)}

CoffeeValues == {JAbsent, JText("teapot"), JText("tea")}

ObjectBody(coffee, zip, measure_name) ==
    [kind |-> "object", coffee |-> coffee, zip |-> zip, measure_name |-> measure_name]

\* a body that is no JSON text, and JSON texts that are no object
OtherBodies == {[kind |-> "malformed"], [kind |-> "array"], [kind |-> "string"],
                [kind |-> "null"]}

ObjectBodies ==
    {ObjectBody(c, z, m) : c \in CoffeeValues, z \in ZipValues, m \in MeasureValues}

Request(method, path, ctype, body) ==
    [method |-> method, path |-> path, ctype |-> ctype, body |-> body]

Paths == {"/", "/county_data"}

PostRequests ==
    {Request("POST", p, ct, b) :
        p \in Paths, ct \in {"application/json", "text/plain", ""},
        b \in ObjectBodies \cup OtherBodies}

GetRequests == {Request("GET", p, "", [kind |-> "none"]) : p \in Paths}

Requests == PostRequests \cup GetRequests

\* the data endpoint of each deployment
DataPath(i) == IF i = "flask" THEN "/county_data" ELSE "/"

\* valid lookups, for the runs that explore the table contents
LookupRequests ==
    {Request("POST", p, "application/json", ObjectBody(JAbsent, JStr(z), JText(m))) :
        p \in Paths, z \in {Zip02138, Zip03060, Zip99999},
        m \in {"Adult obesity", "Unemployment", "Uninsured"}}

(***************************************************************************)
(* The bulk loader (csv_to_sqlite.py): identifiers, CSV files, tables       *)
(***************************************************************************)
AsciiLower ==
    <<"a", "b", "c", "d", "e", "f", "g", "h", "i", "j", "k", "l", "m",
      "n", "o", "p", "q", "r", "s", "t", "u", "v", "w", "x", "y", "z">>

AsciiUpper ==
    <<"A", "B", "C", "D", "E", "F", "G", "H", "I", "J", "K", "L", "M",
      "N", "O", "P", "Q", "R", "S", "T", "U", "V", "W", "X", "Y", "Z">>

AsciiLetters ==
    {AsciiLower[i] : i \in 1..Len(AsciiLower)} \cup {AsciiUpper[i] : i \in 1..Len(AsciiUpper)}

\* the byte order mark, U+FEFF
Bom == "U+FEFF"

Whitespace == {" ", "\t"}

\* the characters of the names and cells used here
Characters ==
    AsciiLetters \cup AsciiDigits \cup NonAsciiDigits \cup Whitespace \cup {"_", Bom}

\* str.isalpha() of one character
isalpha(c) == c \in AsciiLetters

\* str.isalnum() of one character: a letter or a Unicode decimal digit
isalnum(c) == isalpha(c) \/ c \in AsciiDigits \cup NonAsciiDigits

\* str.upper() of one character
UpperChar ==
    [c \in Characters |->
        IF \E i \in 1..Len(AsciiLower) : c = AsciiLower[i]
        THEN AsciiUpper[CHOOSE i \in 1..Len(AsciiLower) : c = AsciiLower[i]]
        ELSE c]

\* str.upper()
upper(name) == [k \in 1..Len(name) |-> UpperChar[name[k]]]

SQLITE_KEYWORDS ==
    {<<"S", "E", "L", "E", "C", "T">>,
     <<"I", "N", "S", "E", "R", "T">>,
     <<"D", "E", "L", "E", "T", "E">>,
     <<"U", "P", "D", "A", "T", "E">>,
     <<"C", "R", "E", "A", "T", "E">>,
     <<"D", "R", "O", "P">>,
     <<"T", "A", "B", "L", "E">>,
     <<"F", "R", "O", "M">>,
     <<"W", "H", "E", "R", "E">>,
     <<"A", "N", "D">>,
     <<"O", "R">>,
     <<"N", "O", "T">>,
     <<"N", "U", "L", "L">>,
     <<"I", "N">>,
     <<"I", "S">>,
     <<"L", "I", "K", "E">>,
     <<"B", "Y">>,
     <<"G", "R", "O", "U", "P">>,
     <<"O", "R", "D", "E", "R">>,
     <<"H", "A", "V", "I", "N", "G">>,
     <<"A", "S">>,
     <<"J", "O", "I", "N">>,
     <<"O", "N">>,
     <<"U", "N", "I", "O", "N">>,
     <<"V", "A", "L", "U", "E", "S">>,
     <<"I", "N", "T", "O">>}

validate_identifier(name) ==
    /\ name # <<>>
    /\ isalpha(name[1]) \/ name[1] = "_"
    /\ \A i \in 1..Len(name) : isalnum(name[i]) \/ name[i] = "_"
    /\ upper(name) \notin SQLITE_KEYWORDS

\* words SQLite's parser does not take as a bare table or column name: those
\* of SQLITE_KEYWORDS except BY and LIKE, and (among others) these four
ParserReserved ==
    (SQLITE_KEYWORDS \ {<<"B", "Y">>, <<"L", "I", "K", "E">>})
        \cup {<<"I", "N", "D", "E", "X">>,
              <<"S", "E", "T">>,
              <<"L", "I", "M", "I", "T">>,
              <<"D", "I", "S", "T", "I", "N", "C", "T">>}

\* conn.execute raises a syntax error for a statement that names this
ParserRejects(name) == upper(name) \in ParserReserved

RECURSIVE lstrip(_)
lstrip(t) == IF t # <<>> /\ Head(t) \in Whitespace THEN lstrip(Tail(t)) ELSE t

RECURSIVE rstrip(_)
rstrip(t) ==
    IF t # <<>> /\ t[Len(t)] \in Whitespace THEN rstrip(SubSeq(t, 1, Len(t) - 1)) ELSE t

\* str.strip()
strip(t) == rstrip(lstrip(t))

\* a CSV file: the stem of its name; whether it has a first line; the fields of
\* that line as written; its data rows, each a sequence of cells; and the
\* number of the data row at which reading raises (0: reading succeeds)
CsvFile(stem, hasHeader, header, rows, failAt) ==
    [stem |-> stem, hasHeader |-> hasHeader, header |-> header, rows |-> rows,
     failAt |-> failAt]

\* open(..., encoding="utf-8-sig"): a byte order mark at the start of the file
\* is not part of the text
Decode(header) ==
    IF header # <<>> /\ header[1] # <<>> /\ header[1][1] = Bom
    THEN [header EXCEPT ![1] = Tail(@)]
    ELSE header

\* csv.DictReader's fieldnames: the fields of the first line, as written
fieldnames(f) == Decode(f.header)

\* columns = [c.strip() for c in reader.fieldnames]
columns(f) == [i \in 1..Len(fieldnames(f)) |-> strip(fieldnames(f)[i])]

\* row.get(col) or None, for the dict DictReader makes of a row: the cell of
\* the last field named col, None when no field is named col, when the row is
\* too short, or when the cell is empty
RowGet(names, row, col) ==
    LET at == {i \in 1..Len(names) : names[i] = col}
        i == CHOOSE k \in at : \A j \in at : j <= k
    IN IF at = {} THEN NullChars
       ELSE IF i > Len(row) THEN NullChars
       ELSE IF row[i] = <<>> THEN NullChars
       ELSE row[i]

\* values = [row.get(col) or None for col in columns], for every row
Values(f) ==
    LET names == fieldnames(f)
        cols == columns(f)
    IN [r \in 1..Len(f.rows) |->
           [k \in 1..Len(cols) |-> RowGet(names, f.rows[r], cols[k])]]

NoTable == [exists |-> FALSE, cols |-> <<>>, types |-> <<>>, rows |-> <<>>]

\* CREATE TABLE name (col TEXT, ...), then the rows inserted
Table(cols, rows) ==
    [exists |-> TRUE, cols |-> cols, types |-> [i \in 1..Len(cols) |-> "TEXT"],
     rows |-> rows]

\* CREATE TABLE raises: no column, a column the parser rejects, or two columns
\* of the same name (column names are compared ignoring case)
CreateFails(cols) ==
    \/ cols = <<>>
    \/ \E i \in 1..Len(cols) : ParserRejects(cols[i])
    \/ \E i, j \in 1..Len(cols) : i < j /\ upper(cols[i]) = upper(cols[j])

\* reading the rows raises part-way
ReadFails(f) == f.failAt \in 1..Len(f.rows)

ExitOk == 0
ExitException == 1
ExitNoHeader == 3
ExitInvalidTable == 4
ExitInvalidColumn == 5

Outcome(tbls, code, stmts) == [tables |-> tbls, exit |-> code, log |-> stmts]

\* a loader that creates the table when it is missing and appends the rows
main_append(f, tbls) ==
    LET cols == columns(f) IN
    IF ~validate_identifier(f.stem) THEN Outcome(tbls, ExitInvalidTable, <<>>)
    ELSE IF ~f.hasHeader THEN Outcome(tbls, ExitNoHeader, <<>>)
    ELSE IF \E i \in 1..Len(cols) : ~validate_identifier(cols[i])
         THEN Outcome(tbls, ExitInvalidColumn, <<>>)
    ELSE IF ParserRejects(f.stem) \/ CreateFails(cols) \/ ReadFails(f)
         THEN Outcome(tbls, ExitException, <<>>)
    ELSE Outcome([tbls EXCEPT ![f.stem] =
                     IF @.exists THEN [@ EXCEPT !.rows = @ \o Values(f)]
                     ELSE Table(cols, Values(f))],
                 ExitOk, <<"INSERT", "COMMIT">>)

\* csv_to_sqlite.py main, run on file f with the database holding tbls: the
\* database it leaves, its exit code, and the statements that succeeded. DROP
\* and CREATE take effect when executed; the inserted rows are kept only by
\* the commit, conn.close() discards them otherwise.
main(f, tbls) ==
    LET cols == columns(f) IN
    IF ~validate_identifier(f.stem) THEN Outcome(tbls, ExitInvalidTable, <<>>)
    ELSE IF ~f.hasHeader THEN Outcome(tbls, ExitNoHeader, <<>>)
    ELSE IF \E i \in 1..Len(cols) : ~validate_identifier(cols[i])
         THEN Outcome(tbls, ExitInvalidColumn, <<>>)
    ELSE IF ParserRejects(f.stem) THEN Outcome(tbls, ExitException, <<>>)
    ELSE IF CreateFails(cols)
         THEN Outcome([tbls EXCEPT ![f.stem] = NoTable], ExitException, <<"DROP">>)
    ELSE IF ReadFails(f)
         THEN Outcome([tbls EXCEPT ![f.stem] = Table(cols, <<>>)],
                      ExitException, <<"DROP", "CREATE">>)
    ELSE Outcome([tbls EXCEPT ![f.stem] = Table(cols, Values(f))],
                 ExitOk, <<"DROP", "CREATE", "INSERT", "COMMIT">>)

MaxCsvRows == 2     \* data rows of a CSV file

\* table names: the stems of zip_county.csv, 1bad.csv, select.csv, index.csv
StemZipCounty == <<"z", "i", "p", "_", "c", "o", "u", "n", "t", "y">>

Stems ==
    {StemZipCounty,
     <<"1", "b", "a", "d">>,
     <<"s", "e", "l", "e", "c", "t">>,
     <<"i", "n", "d", "e", "x">>}

\* header lines
HeaderAB == <<<<"a">>, <<"b">>>>
HeaderABC == <<<<"a">>, <<"b">>, <<"c">>>>
HeaderCase == <<<<"Z", "i", "p">>, <<"b">>>>
HeaderPadded == <<<<" ", "a", " ">>, <<"b">>>>
HeaderBom == <<<<Bom, "a">>, <<"b">>>>
HeaderSelect == <<<<"a">>, <<"S", "E", "L", "E", "C", "T">>>>
HeaderIndex == <<<<"a">>, <<"i", "n", "d", "e", "x">>>>
HeaderTwice == <<<<"a">>, <<"a">>>>
HeaderTwiceCase == <<<<"a">>, <<"A">>>>
HeaderSpace == <<<<"a">>, <<"b", "a", "d", " ", "n", "a", "m", "e">>>>
\* a name starting with a digit; an empty name
HeadersRejected == {<<<<"1", "x">>, <<"b">>>>, <<<<"a">>, <<>>>>}
HeaderBlank == <<>>

\* data rows: two cells, and the second cell empty
RowUniverse == {<<<<"1">>, <<"2">>>>, <<<<"3">>, <<>>>>}

OneRow == <<<<<<"1">>, <<"2">>>>>>

\* the files imported: every sequence of rows under the headers that import,
\* one row under each other header and table name, an empty file, and files
\* whose reading raises at a row
Files ==
    {CsvFile(StemZipCounty, TRUE, h, rows, 0) :
        h \in {HeaderAB, HeaderABC, HeaderPadded},
        rows \in SeqsUpTo(RowUniverse, MaxCsvRows)}
    \cup {CsvFile(StemZipCounty, TRUE, h, OneRow, 0) :
        h \in {HeaderCase, HeaderBom, HeaderSelect, HeaderIndex, HeaderTwice,
               HeaderTwiceCase, HeaderSpace, HeaderBlank} \cup HeadersRejected}
    \cup {CsvFile(st, TRUE, HeaderAB, OneRow, 0) : st \in Stems}
    \cup {CsvFile(StemZipCounty, FALSE, <<>>, <<>>, 0)}
    \cup {CsvFile(StemZipCounty, TRUE, HeaderAB, rows, Len(rows)) :
        rows \in SeqsUpTo(RowUniverse, MaxCsvRows) \ {<<>>}}

NoFile == CsvFile(<<>>, FALSE, <<>>, <<>>, 0)

\* a new database file, no loader run yet
InitLoader ==
    /\ tables = [st \in Stems |-> NoTable]
    /\ before = [st \in Stems |-> NoTable]
    /\ last = NoFile
    /\ exit = ExitOk
    /\ log = <<>>

(***************************************************************************)
(* The service                                                             *)
(***************************************************************************)
NoReq == Request("", "", "", [kind |-> "none"])

Route(i, r) == IF i = "flask" THEN FlaskRoute(r) ELSE FastapiRoute(r)

Validate(i, r) == IF i = "flask" THEN FlaskValidate(r) ELSE FastapiValidate(r)

\* the response when data.db is not found: fetch_data returns None (app.py),
\* HTTPException(500) (api/county_data.py)
NoDbResponse(i) == IF i = "flask" THEN JsonError(500) ELSE JsonDetail(500)

\* app.py fetch_data: the keys of each result object
FlaskKeys == {LowerHeader[i] : i \in 1..Len(LowerHeader)}

\* app.py fetch_data: cursor.execute raises (no such table, no such column,
\* file is not a database); the except clause turns it into None
FlaskQueryFails(d) ==
    \/ d.fault # "none"
    \/ \E i \in 1..Len(ChrHeader) : ~SqlResolves(d.chr_cols, ChrHeader[i])

\* api/county_data.py get_chr_columns: PRAGMA table_info's column names
get_chr_columns(d) == d.chr_cols

\* api/county_data.py: select_cols, the keys of each result object
select_cols(d) == {get_chr_columns(d)[i] : i \in 1..Len(get_chr_columns(d))}

\* a fetch_data that answers a failed query as a client error
FlaskLookupDegraded(d, body) ==
    LET results == FlaskQuery(d, PyStr(body.zip), body.measure_name.name)
    IN IF FlaskQueryFails(d) THEN JsonError(400)
       ELSE IF results = <<>> THEN JsonError(404)
       ELSE JsonRows(results, FlaskKeys)

\* app.py: county_data's mapping of fetch_data's rows
FlaskLookup(d, body) ==
    LET results == FlaskQuery(d, PyStr(body.zip), body.measure_name.name)
    IN IF FlaskQueryFails(d) THEN JsonError(500)
       ELSE IF results = <<>> THEN JsonError(404)
       ELSE JsonRows(results, FlaskKeys)

\* api/county_data.py: county_data's statements between connect and close
FastapiLookup(d, body) ==
    LET zc_rows == ZcRows(d, body.zip.s)
        rows == FastapiSelect(d, zc_rows, body.measure_name.name)
    IN IF d.fault # "none" THEN TextError(500)
       ELSE IF zc_rows = {} THEN JsonDetail(404)
       ELSE IF get_chr_columns(d) = <<>> THEN JsonDetail(500)
       ELSE IF \E t \in FilterColumns : find_col(get_chr_columns(d), t) = KeyError
            THEN TextError(500)
       ELSE IF ~HasClauses(zc_rows) THEN JsonDetail(404)
       ELSE IF rows = <<>> THEN JsonDetail(404)
       ELSE JsonRows(rows, select_cols(d))

Lookup(i, d, body) == IF i = "flask" THEN FlaskLookup(d, body) ELSE FastapiLookup(d, body)

InitService ==
    /\ impl \in {"flask", "fastapi"}
    /\ pc = "idle"
    /\ req = NoReq
    /\ conn = FALSE
    /\ opened = FALSE
    /\ queried = FALSE
    /\ resp = NoResp
    /\ InitLoader

Init ==
    /\ InitService
    /\ db \in {NoDb, TestDb, Database(TRUE, {}, <<>>)}

\* the states data.db can be in: absent, no database, without zip_county, and
\* loaded with each schema of county_health_rankings
Headers == {ChrHeader, LowerHeader, CamelHeader, NoFipsHeader, <<>>}

StorageDbs ==
    {NoDb, Storage(TRUE, "corrupt", <<>>, {}, <<>>)}
        \cup {Storage(TRUE, "no_zip_table", h, {}, IF h = <<>> THEN <<>> ELSE TestDb.chr) :
                  h \in Headers}
        \cup {Storage(TRUE, "none", h, zc, IF h = <<>> THEN <<>> ELSE TestDb.chr) :
                  h \in Headers, zc \in {{}, TestDb.zip_county}}

\* requests that end in each validation outcome
InvalidRequests ==
    {Request("POST", p, "application/json", b) :
        p \in Paths,
        b \in {ObjectBody(JText("teapot"), JAbsent, JAbsent),
               ObjectBody(JAbsent, JAbsent, JText("Adult obesity")),
               ObjectBody(JAbsent, JStr(<<"2", "1", "3", "8">>), JText("Adult obesity")),
               ObjectBody(JAbsent, JStr(Zip02138), JText("Not A Measure"))}}
        \cup {Request("POST", p, "text/plain", [kind |-> "malformed"]) : p \in Paths}

StorageRequests == LookupRequests \cup InvalidRequests

InitStorage ==
    /\ InitService
    /\ db \in StorageDbs

InitLookup ==
    /\ InitService
    /\ db \in {NoDb} \cup {Database(TRUE, zc, chr) : zc \in ZipTables, chr \in ChrTables}

\* a request arrives
Receive(r) ==
    /\ pc = "idle"
    /\ pc' = "recv"
    /\ req' = r
    /\ UNCHANGED <<impl, db, conn, opened, queried, resp>>
    /\ UNCHANGED loaderVars

ReceiveAny == \E r \in Requests : Receive(r)

ReceiveLookup == \E r \in LookupRequests : Receive(r)

ReceiveStorage == \E r \in StorageRequests : Receive(r)

\* routing, then the handler up to its first use of the database
Dispatch ==
    /\ pc = "recv"
    /\ LET routed == Route(impl, req)
           checked == Validate(impl, req)
       IN IF routed # NoResp THEN resp' = routed /\ pc' = "done"
          ELSE IF checked # NoResp THEN resp' = checked /\ pc' = "done"
          ELSE resp' = resp /\ pc' = "connect"
    /\ UNCHANGED <<impl, db, req, conn, opened, queried>>
    /\ UNCHANGED loaderVars

\* get_db_connection (app.py); os.path.exists and sqlite3.connect (api)
Connect ==
    /\ pc = "connect"
    /\ IF db.present
       THEN conn' = TRUE /\ opened' = TRUE /\ pc' = "query" /\ resp' = resp
       ELSE conn' = conn /\ opened' = opened /\ pc' = "done" /\ resp' = NoDbResponse(impl)
    /\ UNCHANGED <<impl, db, req, queried>>
    /\ UNCHANGED loaderVars

\* a handler that closes the connection after the try block, not in finally
QueryCloseAfterTry ==
    /\ pc = "query"
    /\ queried' = TRUE
    /\ resp' = Lookup(impl, db, req.body)
    /\ pc' = IF resp'.status = 500 THEN "done" ELSE "close"
    /\ UNCHANGED <<impl, db, req, conn, opened>>
    /\ UNCHANGED loaderVars

\* the statements run on the connection
Query ==
    /\ pc = "query"
    /\ queried' = TRUE
    /\ resp' = Lookup(impl, db, req.body)
    /\ pc' = "close"
    /\ UNCHANGED <<impl, db, req, conn, opened>>
    /\ UNCHANGED loaderVars

\* finally: conn.close(), and the response leaves
Close ==
    /\ pc = "close"
    /\ conn' = FALSE
    /\ pc' = "done"
    /\ UNCHANGED <<impl, db, req, opened, queried, resp>>
    /\ UNCHANGED loaderVars

\* the response is delivered; the worker takes the next request
Deliver ==
    /\ pc = "done"
    /\ pc' = "idle"
    /\ req' = NoReq
    /\ resp' = NoResp
    /\ opened' = FALSE
    /\ queried' = FALSE
    /\ UNCHANGED <<impl, db, conn>>
    /\ UNCHANGED loaderVars

Next == ReceiveAny \/ Dispatch \/ Connect \/ Query \/ Close \/ Deliver

NextLookup == ReceiveLookup \/ Dispatch \/ Connect \/ Query \/ Close \/ Deliver

Spec == Init /\ [][Next]_vars

SpecLookup == InitLookup /\ [][NextLookup]_vars

NextStorage == ReceiveStorage \/ Dispatch \/ Connect \/ Query \/ Close \/ Deliver

SpecStorage == InitStorage /\ [][NextStorage]_vars

\* the loader has not served a request: the service is as it starts
InitImport ==
    /\ InitService
    /\ db = NoDb

\* python3 csv_to_sqlite.py data.db f.csv, from start to exit
Import(f) ==
    /\ pc = "idle"
    /\ before' = tables
    /\ last' = f
    /\ LET out == main(f, tables)
       IN /\ tables' = out.tables
          /\ exit' = out.exit
          /\ log' = out.log
    /\ UNCHANGED <<impl, db, pc, req, conn, opened, queried, resp>>

NextImport == \E f \in Files : Import(f)

SpecImport == InitImport /\ [][NextImport]_vars

(***************************************************************************)
(* Properties                                                              *)
(***************************************************************************)
\* a finished POST to the deployment's data endpoint
DataPostDone == pc = "done" /\ req.method = "POST" /\ req.path = DataPath(impl)

\* ... whose body was parsed as a JSON object
ObjectPostDone ==
    /\ DataPostDone
    /\ req.ctype = "application/json"
    /\ req.body.kind = "object"

HasTeapot(r) == r.body.kind = "object" /\ r.body.coffee = JText("teapot")

\* a string of exactly five ASCII decimal digits
FiveAsciiDigits(v) ==
    /\ v.t = "str"
    /\ Len(v.s) = 5
    /\ \A i \in 1..5 : v.s[i] \in {"0", "1", "2", "3", "4", "5", "6", "7", "8", "9"}

AbsentOrEmpty(v) == v = JAbsent \/ v = JStr(<<>>) \/ v = JText("")

\* C1: a POST to the data endpoint whose JSON body has coffee = "teapot" is
\* answered 418 whatever zip and measure_name are, and no connection is opened
\* and no statement run for it at any point of its handling.
C1_TeapotFirst ==
    (/\ req.method = "POST" /\ req.path = DataPath(impl)
     /\ req.ctype = "application/json" /\ HasTeapot(req))
        => /\ ~conn /\ ~opened /\ ~queried
           /\ pc \in {"recv", "done"}
           /\ pc = "done" => resp.status = 418

\* C1 witness: a teapot request whose zip is malformed and whose measure is not
\* allowed has been answered 418.
C1_Witness ==
    /\ ObjectPostDone
    /\ HasTeapot(req)
    /\ req.body.zip = JStr(<<"2", "1", "3", "8">>)
    /\ req.body.measure_name = JText("Not A Measure")
    /\ resp.status = 418

\* C2: a POST with a JSON-object body and no teapot marker whose zip is not a
\* string of exactly five ASCII digits is answered 400 for every measure_name,
\* and the database is never queried for it.  Stated for the measure_name
\* values that are strings, the cases in which only zip decides the answer.
C2_BadZipIs400 ==
    (/\ ObjectPostDone /\ ~HasTeapot(req)
     /\ req.body.measure_name.t = "text"
     /\ ~FiveAsciiDigits(req.body.zip))
        => resp.status = 400 /\ ~opened /\ ~queried

\* C3: a POST with no teapot marker whose measure_name is not one of the twelve
\* allowed names is answered 400, and each of the twelve names passes the
\* measure validation when zip is valid.  Stated for the zip values that are
\* absent or strings, the cases in which only measure_name decides the answer.
C3_BadMeasureIs400 ==
    (ObjectPostDone /\ ~HasTeapot(req) /\ req.body.zip.t \in {"absent", "str"})
        => /\ req.body.measure_name \notin {JText(m) : m \in ALLOWED_MEASURES}
                => resp.status = 400
           /\ (/\ req.body.measure_name \in {JText(m) : m \in ALLOWED_MEASURES}
               /\ FiveAsciiDigits(req.body.zip))
                => resp.status # 400

\* C4: a POST with a JSON-object body and no teapot marker in which zip or
\* measure_name is absent or the empty string is answered 400, whatever the
\* other field is.
C4_MissingIs400 ==
    (/\ ObjectPostDone /\ ~HasTeapot(req)
     /\ (AbsentOrEmpty(req.body.zip) \/ AbsentOrEmpty(req.body.measure_name)))
        => resp.status = 400

\* C4 witness: a request with a valid zip and no measure_name was answered 400.
C4_Witness ==
    /\ ObjectPostDone
    /\ ~HasTeapot(req)
    /\ req.body.measure_name = JAbsent
    /\ req.body.zip = JStr(Zip02138)
    /\ resp.status = 400

\* C5: a POST to the data endpoint whose body cannot be parsed as a JSON object
\* (content type not JSON, malformed JSON, JSON that is no object) is answered
\* 400 and never 5xx.
C5_NotJsonIs400 ==
    (DataPostDone /\ (req.ctype # "application/json" \/ req.body.kind # "object"))
        => resp.status = 400

\* C9: every non-2xx response of the data endpoint has a JSON-object body with
\* the key "error".
C9_ErrorBodyHasError ==
    (pc = "done" /\ req.path = DataPath(impl) /\ resp.status \notin 200..299)
        => resp.kind = "object" /\ "error" \in resp.keys

\* C10 as claimed: a GET on the data endpoint yields 405 and a GET on "/"
\* yields 200 with {"ok": true}, with no use of the database.
C10_GetAsClaimed ==
    (pc = "done" /\ req.method = "GET")
        => /\ ~opened /\ ~queried
           /\ req.path = DataPath(impl) => resp.status = 405
           /\ req.path = "/" => resp = JsonOk

\* C10 amended: in the Flask deployment a GET on the data endpoint
\* /county_data yields 405 and a GET on "/" yields 200 with {"ok": true}; in
\* the FastAPI deployment, whose data endpoint is "/", a GET on "/" yields 404;
\* no GET opens a connection or runs a statement, the database present or not.
C10_GetAmended ==
    (req.method = "GET")
        => /\ ~conn /\ ~opened /\ ~queried
           /\ pc \in {"recv", "done"}
           /\ (pc = "done" /\ impl = "flask" /\ req.path = "/county_data")
                => resp.status = 405
           /\ (pc = "done" /\ impl = "flask" /\ req.path = "/") => resp = JsonOk
           /\ (pc = "done" /\ impl = "fastapi" /\ req.path = "/")
                => resp.status = 404

\* C10 witness: with no database file, Flask answered a GET on /county_data 405.
C10_Witness ==
    /\ pc = "done"
    /\ req.method = "GET"
    /\ impl = "flask"
    /\ req.path = "/county_data"
    /\ ~db.present
    /\ resp.status = 405

\* a finished, validated lookup on a reachable database
LookupDone == DataPostDone /\ db.present /\ queried

\* the zip_county rows of the requested zip
ZipRowsOfReq == {z \in db.zip_county : z.zip = req.body.zip.s}

\* ranking row c is a row of the county that zip_county row z names: by its
\* full code, or by its state together with its short code or its name
RowOfCounty(c, z) ==
    \/ c.fipscode = z.county_code
    \/ /\ c.State = z.state_abbreviation
       /\ \/ c.County = z.county
          \/ Len(z.county_code) >= 3 /\ c.County_code = Last3(z.county_code)

\* the ranking rows of the requested measure in the counties of the requested zip
CountyRowsOfReq ==
    {i \in 1..Len(db.chr) :
        /\ db.chr[i].Measure_name = req.body.measure_name.name
        /\ \E z \in ZipRowsOfReq : RowOfCounty(db.chr[i], z)}

\* C6: a validated POST on a reachable database is answered 200 exactly when
\* the lookup returned a row, and 404 when the zip has no zip_county row or its
\* counties have no ranking row of the measure; a 200 never carries no rows.
C6_FoundOrNot ==
    LookupDone
        => /\ resp.status \in {200, 404}
           /\ resp.status = 200 <=> resp.rows # <<>>
           /\ ZipRowsOfReq = {} => resp.status = 404
           /\ CountyRowsOfReq = {} => resp.status = 404

\* C7: when the zip has zip_county rows with several distinct county codes, a
\* 200 response holds every ranking row of the measure whose fipscode equals
\* one of the zip's county codes.
C7_EveryCounty ==
    (/\ LookupDone /\ resp.status = 200
     /\ Cardinality({z.county_code : z \in ZipRowsOfReq}) >= 2)
        => \A i \in 1..Len(db.chr) :
              (/\ db.chr[i].Measure_name = req.body.measure_name.name
               /\ \E z \in ZipRowsOfReq : z.county_code = db.chr[i].fipscode)
                  => \E j \in 1..Len(resp.rows) : resp.rows[j] = db.chr[i]

\* C7 witness: zip 02138 lies in two counties, each with a ranking row of the
\* measure, and the 200 response holds both rows.
C7_Witness ==
    /\ LookupDone
    /\ resp.status = 200
    /\ {ZcMiddlesex, ZcHillsborough} \subseteq ZipRowsOfReq
    /\ \E j, k \in 1..Len(resp.rows) :
          resp.rows[j] = ChrObesity2012 /\ resp.rows[k] = ChrHillsborough

\* C8: the rows of a 200 response ascend by the integer value of
\* data_release_year, ties by year_span, whatever the order of insertion.
C8_RowsOrdered ==
    (LookupDone /\ resp.status = 200)
        => \A i, j \in 1..Len(resp.rows) :
              i < j => ~OrderBefore(resp.rows[j], resp.rows[i])

\* a finished POST to the data endpoint that passed validation
ValidatedDone ==
    /\ DataPostDone
    /\ Route(impl, req) = NoResp
    /\ Validate(impl, req) = NoResp

\* the columns of the rankings table, as a set
SchemaColumns == {db.chr_cols[i] : i \in 1..Len(db.chr_cols)}

\* C11: every row object of a 200 response has as its keys the column names
\* of county_health_rankings exactly as cased in the schema (State, County,
\* ..., Data_Release_Year, fipscode for the loaded CSV). app.py gives every row
\* fourteen lower-case keys whatever the schema's casing, so this is violated
\* there for the schema the claim lists.
C11_KeysAsInSchema ==
    (ValidatedDone /\ resp.status = 200) => resp.keys = SchemaColumns

\* no column of the table spells the i-th field, ignoring case and underscores
FieldMissing(cols, i) ==
    \A j \in 1..Len(cols) :
        DropUnderscores(LowerName(cols[j])) # SquashedHeader[i]

\* database file absent or unreachable, or zip_county missing
FileBroken == ~db.present \/ db.fault # "none"

\* county_health_rankings missing, or one of its fields missing
RankingsBroken ==
    \/ db.chr_cols = <<>>
    \/ \E i \in 1..Len(ChrHeader) : FieldMissing(db.chr_cols, i)

\* the zip of the request has a row in zip_county
ZipKnown == \E z \in db.zip_county : SqlEqChars(z.zip, PyStr(req.body.zip))

Is500NoLeak == resp.status = 500 /\ resp.msg # "exception"

\* C12 as stated: whenever a validated request is served from a broken storage
\* (file absent or unreachable, a required table or column missing), the
\* status is 500 and the body carries no exception text. Violated by
\* api/county_data.py, which answers 404 for a zip without zip_county rows
\* before it looks at county_health_rankings.
C12_AsClaimed ==
    (ValidatedDone /\ (FileBroken \/ RankingsBroken)) => Is500NoLeak

\* C12 amended: the status is 500 without exception text whenever the failing
\* statement is executed: always when the file or zip_county is broken, always
\* in app.py (its one query names both tables), and in api/county_data.py for
\* a broken county_health_rankings when the zip has a zip_county row.
C12_FailureMetIs500 ==
    (/\ ValidatedDone
     /\ \/ FileBroken
        \/ RankingsBroken /\ (impl = "flask" \/ ZipKnown))
        => Is500NoLeak

C12_Witness ==
    /\ ValidatedDone
    /\ impl = "fastapi"
    /\ ~FileBroken /\ RankingsBroken /\ ZipKnown
    /\ queried
    /\ Is500NoLeak

\* C13: a request that ends in a validation outcome never opens a connection;
\* every connection a request opens is closed by the time its response is
\* produced, on every exit path; a connection is open only while its request
\* is in flight. Each handler holds its connection in a local variable and
\* shares nothing with other requests, so one worker stands for each of them.
C13_ConnectionScoped ==
    /\ (DataPostDone /\ Validate(impl, req) # NoResp) => ~opened
    /\ pc = "done" => ~conn
    /\ conn => (req # NoReq /\ opened)

\* a connection was opened, the query raised, and the connection is closed
C13_Witness ==
    /\ pc = "done"
    /\ opened /\ queried /\ ~conn
    /\ resp.status = 500

\* C17: every row of a 200 response has the requested measure and belongs to
\* a county the requested zip maps to: one zip_county row of the zip gives the
\* row's full code, or gives both its state and its county code or name. A row
\* whose state comes from one zip_county row and whose county code or name
\* comes from another is not returned. api/county_data.py filters the state
\* and the county code (or name) by two independent IN lists, so it returns
\* such rows.
C17_RowsOfZipCounty ==
    (LookupDone /\ resp.status = 200)
        => \A j \in 1..Len(resp.rows) :
              /\ resp.rows[j].Measure_name = req.body.measure_name.name
              /\ \E z \in ZipRowsOfReq : RowOfCounty(resp.rows[j], z)

\* the number of times row c occurs in rows
Occurrences(rows, c) == Cardinality({i \in 1..Len(rows) : rows[i] = c})

\* C18: no county_health_rankings row appears more than once in a 200
\* response, also when zip_county holds several rows for the same zip and the
\* same county code and when a ranking row satisfies several location
\* alternatives: each row occurs in the response at most as often as in the
\* table. The JOIN of app.py returns a ranking row once per zip_county row of
\* its county code.
C18_NoRowTwice ==
    (LookupDone /\ resp.status = 200)
        => \A c \in ChrUniverse : Occurrences(resp.rows, c) <= Occurrences(db.chr, c)

\* the loader has run
Ran == last # NoFile

\* a safe identifier: non-empty, only ASCII letters, digits and underscores,
\* no digit first, and no reserved word whatever its case
SafeIdentifier(name) ==
    /\ name # <<>>
    /\ \A i \in 1..Len(name) : isalpha(name[i]) \/ name[i] \in AsciiDigits \/ name[i] = "_"
    /\ name[1] \notin AsciiDigits
    /\ upper(name) \notin SQLITE_KEYWORDS \cup ParserReserved

\* the table name and every column name of file f are safe identifiers
AllSafe(f) ==
    /\ SafeIdentifier(f.stem)
    /\ \A i \in 1..Len(columns(f)) : SafeIdentifier(columns(f)[i])

\* C14: the loader imports a CSV only if the table name and every header
\* column name are safe identifiers (non-empty, alphanumeric or underscore,
\* no leading digit, no SQL reserved word in any case); otherwise it exits
\* nonzero before any DROP, CREATE or INSERT is executed and the database is
\* unchanged. SQLITE_KEYWORDS holds some reserved words only: a column named
\* index passes the check, the old table is dropped, and CREATE TABLE fails.
C14_UnsafeIsRejectedUntouched ==
    Ran => /\ exit = ExitOk => AllSafe(last)
           /\ ~AllSafe(last) => (exit # ExitOk /\ log = <<>> /\ tables = before)

\* C15: after a successful import the table holds only that import: its
\* columns are the file's header in header order and it has as many rows as
\* the file has data rows, whatever was imported under that name before; the
\* table is the one the file gives in a new database, so that importing a file
\* twice leaves what importing it once leaves.
C15_LastImportOnly ==
    (Ran /\ exit = ExitOk)
        => /\ tables[last.stem].exists
           /\ tables[last.stem].cols = columns(last)
           /\ Len(tables[last.stem].rows) = Len(last.rows)
           /\ tables[last.stem] = main(last, [st \in Stems |-> NoTable]).tables[last.stem]
           /\ \A st \in Stems \ {last.stem} : tables[st] = before[st]

\* C15 witness: a table of header a,b with two rows was replaced by the import
\* of a file of header a,b,c with one row
C15_Witness ==
    /\ Ran /\ exit = ExitOk
    /\ before[last.stem].exists
    /\ before[last.stem].cols = columns(CsvFile(StemZipCounty, TRUE, HeaderAB, <<>>, 0))
    /\ Len(before[last.stem].rows) = 2
    /\ last.header = HeaderABC
    /\ Len(last.rows) = 1
    /\ Len(tables[last.stem].rows) = 1

\* the i-th header field as text: without the byte order mark of the file and
\* without surrounding whitespace
HeaderName(f, i) ==
    strip(IF i = 1 /\ f.header[1] # <<>> /\ f.header[1][1] = Bom
          THEN Tail(f.header[1]) ELSE f.header[i])

\* the cell of data row r under the k-th header field, NULL when empty
CellOrNull(f, r, k) ==
    IF k <= Len(f.rows[r]) /\ f.rows[r][k] # <<>> THEN f.rows[r][k] ELSE NullChars

\* C16: after a successful import the table has one TEXT column per header
\* field, named as in the header, case preserved, in header order, and one row
\* per data row, each column holding the text of the row's cell under that
\* header or NULL when the cell is empty; also for header fields written with
\* surrounding whitespace and for files starting with a byte order mark.
\* The loader looks each row up by the stripped name while the reader keys the
\* row by the name as written: a column whose header field has surrounding
\* whitespace is NULL in every row.
C16_TableAsFile ==
    (Ran /\ exit = ExitOk)
        => LET t == tables[last.stem]
           IN /\ Len(t.cols) = Len(last.header)
              /\ \A i \in 1..Len(t.cols) :
                    t.cols[i] = HeaderName(last, i) /\ t.types[i] = "TEXT"
              /\ Len(t.rows) = Len(last.rows)
              /\ \A r \in 1..Len(t.rows) : \A k \in 1..Len(last.header) :
                    t.rows[r][k] = CellOrNull(last, r, k)

\* C19: an import is all-or-nothing: when the loader ends with an error or an
\* exception after the identifier checks, a table of that name imported before
\* still exists with its schema and rows. The loader drops the table before
\* it creates and fills the new one, and the DROP is not undone: after CREATE
\* TABLE fails on a repeated column name the table is gone, and after a read
\* error the new table is empty. Stated for files whose names are all safe
\* identifiers, so that the failure is none of the identifier check.
C19_AllOrNothing ==
    (/\ Ran /\ exit # ExitOk
     /\ AllSafe(last)
     /\ before[last.stem].exists)
        => tables[last.stem] = before[last.stem]

====
